---- MODULE Spec2Model ----
(***************************************************************************)
(* Model of cryptofeed/exchange/bitmex.py: the BitMEX feed handler's       *)
(* order-book engine (Bitmex._book), its reset (Bitmex._reset, called by   *)
(* Bitmex.subscribe) and the dispatcher (Bitmex.message_handler).          *)
(*                                                                         *)
(* A mapping (a Python dict / SortedDict) is a function whose DOMAIN is    *)
(* the set of keys present.  Prices and sizes are integers: the handler    *)
(* wraps them in Decimal(), which keeps the numeric value.                 *)
(***************************************************************************)
EXTENDS Integers, Sequences, FiniteSets, TLC

\* ---------------------------------------------------------------- bounds
\* Longest data list of one inbound message.
MaxEntries == 2
\* Number of inbound messages handled in one run.
MaxMsgs == 2
\* Number of inbound messages handled in one run of single-entry messages.
MaxSingleMsgs == 4
\* Number of inbound messages handled in one run of an engine of two symbols.
MaxPairMsgs == 3
\* Number of inbound messages handled in one run whose deliveries are recorded.
MaxSinkMsgs == 4

\* ---------------------------------------------------------------- domains
BID == "bid"
ASK == "ask"
L2_BOOK == "l2_book"
TRADES == "trades"
TICKER == "ticker"
FUNDING == "funding"
OPEN_INTEREST == "open_interest"

Sides == {BID, ASK}
SideTokens == {"Buy", "Sell"}
Prices == {99, 100}
Ids == {1, 2}
Actions == {"partial", "insert", "update", "delete"}

\* ---------------------------------------------------------------- mappings
EmptyMap == [k \in {} |-> 0]

\* d[k] = v
SetItem(d, k, v) == [x \in (DOMAIN d) \cup {k} |-> IF x = k THEN v ELSE d[x]]

\* del d[k]   (k present)
DelItem(d, k) == [x \in (DOMAIN d) \ {k} |-> d[x]]

\* ---------------------------------------------------------------- state
VARIABLES
    pairs,              \* self.pairs : the configured symbols
    partial_received,   \* self.partial_received : symbol -> bool
    l2_book,            \* self.l2_book : symbol -> side -> price -> size
    order_id,           \* self.order_id : symbol -> side -> id -> price
    pc,                 \* "idle": awaiting the next event; "done": a handler has just ended
    op,                 \* the handler that ran last: "message_handler" | "subscribe" | "none"
    msg,                \* the decoded message given to message_handler
    pre,                \* the engine state at the entry of the handler
    out,                \* what the handler did: how it ended, its callbacks, its log
    nmsgs,              \* messages handled so far
    resets,             \* _reset calls since the last handled message (2: two or more)
    consumer,           \* whether a consumer keeping a copy of the books is registered
    replica,            \* that consumer's copy of each symbol's book, kept from the BookUpdates
    snapshot_seen,      \* per symbol: a partial for it was handled since the last reset
    last_write,         \* per symbol, side and price: the size of the last partial, insert
                        \* or update entry applied to the price since the last reset, and
                        \* whether a delete was applied to the price after it
    tracking,           \* whether the deliveries to the sink are recorded
    sink,               \* when tracking: per BookUpdate the sink received, in order, the
                        \* number of the message that was being handled
    accepted,           \* when tracking: the numbers of the book messages that passed the
                        \* gate with a known action and ended without an exception, in order
    first_update,       \* per symbol, the first BookUpdate delivered since the last reset
    shared_price,       \* per symbol: since the last reset an entry indexed an identifier at
                        \* a price another identifier of its side was indexed at
    moved_id,           \* per symbol: since the last reset a partial or insert entry named
                        \* an identifier its side had indexed at another price
    failed,             \* a handler has raised since the construction
    scenario            \* when armed: how far the messages since the last reset follow Scenario

vars == <<pairs, partial_received, l2_book, order_id, pc, op, msg, pre, out, nmsgs,
          resets, snapshot_seen, last_write, tracking, sink, accepted, consumer, replica, first_update, shared_price, moved_id, failed, scenario>>

EngineState == [partial_received |-> partial_received,
                l2_book |-> l2_book,
                order_id |-> order_id,
                replica |-> <<>>,
                resets |-> resets,
                failed |-> failed,
                snapshot_seen |-> snapshot_seen]

NoMsg == [table |-> "none", action |-> "none", data |-> <<>>]
NoOut == [raised |-> "", callbacks |-> <<>>, log |-> <<>>]
NoPre == [partial_received |-> <<>>, l2_book |-> <<>>, order_id |-> <<>>, replica |-> <<>>,
          resets |-> 0, failed |-> FALSE, snapshot_seen |-> <<>>]
NoUpdate == [action |-> "none", forced |-> FALSE]

\* ---------------------------------------------------------------- _reset
\* Bitmex._reset: fresh gate table, empty book sides and empty index for each pair.
ResetState(ps) ==
    [partial_received |-> [p \in ps |-> FALSE],
     l2_book |-> [p \in ps |-> [s \in Sides |-> EmptyMap]],
     order_id |-> [p \in ps |-> [s \in Sides |-> EmptyMap]]]

\* ---------------------------------------------------------------- _book
\* side = BID if data['side'] == 'Buy' else ASK
\* SideOf with the two sides exchanged.
SideOf_Swapped(data) == IF data.side = "Buy" THEN ASK ELSE BID

SideOf(data) == IF data.side = "Buy" THEN BID ELSE ASK

\* The entry operators below take and return acc, the loop state of _book for
\* one pair: the pair's book and index, the delta built so far and the
\* exception that ended the loop ("" while none).

\* PartialEntry that keeps the size of a level already present.
PartialEntry_KeepLevel(acc, data) ==
    LET side == SideOf(data)
        price == data.price
        size == data.size
    IN  [acc EXCEPT !.book[side] = IF price \in DOMAIN @ THEN @ ELSE SetItem(@, price, size),
                    !.index[side] = SetItem(@, data.id, price)]

PartialEntry(acc, data) ==
    LET side == SideOf(data)
        price == data.price
        size == data.size
    IN  [acc EXCEPT !.book[side] = SetItem(@, price, size),
                    !.index[side] = SetItem(@, data.id, price)]

\* InsertEntry that leaves the new level out of the delta.
InsertEntry_NoDelta(acc, data) ==
    LET side == SideOf(data)
        price == data.price
        size == data.size
    IN  [acc EXCEPT !.book[side] = SetItem(@, price, size),
                    !.index[side] = SetItem(@, data.id, price)]

InsertEntry(acc, data) ==
    LET side == SideOf(data)
        price == data.price
        size == data.size
    IN  [acc EXCEPT !.book[side] = SetItem(@, price, size),
                    !.index[side] = SetItem(@, data.id, price),
                    !.delta[side] = Append(@, <<price, size>>)]

\* UpdateEntry that adds the reported size to the level instead of setting it.
UpdateEntry_Additive(acc, data) ==
    LET side == SideOf(data)
        update_size == data.size
    IN  IF data.id \notin DOMAIN acc.index[side]
        THEN [acc EXCEPT !.raised = "KeyError"]
        ELSE LET price == acc.index[side][data.id]
                 level == IF price \in DOMAIN acc.book[side]
                          THEN acc.book[side][price] + update_size
                          ELSE update_size
             IN  [acc EXCEPT !.book[side] = SetItem(@, price, level),
                             !.index[side] = SetItem(@, data.id, price),
                             !.delta[side] = Append(@, <<price, update_size>>)]

\* UpdateEntry that skips an unknown identifier instead of raising.
UpdateEntry_Silent(acc, data) ==
    LET side == SideOf(data)
        update_size == data.size
    IN  IF data.id \notin DOMAIN acc.index[side]
        THEN acc
        ELSE LET price == acc.index[side][data.id]
             IN  [acc EXCEPT !.book[side] = SetItem(@, price, update_size),
                             !.index[side] = SetItem(@, data.id, price),
                             !.delta[side] = Append(@, <<price, update_size>>)]

UpdateEntry(acc, data) ==
    LET side == SideOf(data)
        update_size == data.size
    IN  IF data.id \notin DOMAIN acc.index[side]
        THEN [acc EXCEPT !.raised = "KeyError"]
        ELSE LET price == acc.index[side][data.id]
             IN  [acc EXCEPT !.book[side] = SetItem(@, price, update_size),
                             !.index[side] = SetItem(@, data.id, price),
                             !.delta[side] = Append(@, <<price, update_size>>)]

\* DeleteEntry that leaves the removed level out of the delta.
DeleteEntry_NoDelta(acc, data) ==
    LET side == SideOf(data)
    IN  IF data.id \notin DOMAIN acc.index[side]
        THEN [acc EXCEPT !.raised = "KeyError"]
        ELSE LET delete_price == acc.index[side][data.id]
             IN  IF delete_price \notin DOMAIN acc.book[side]
                 THEN [acc EXCEPT !.index[side] = DelItem(@, data.id),
                                  !.raised = "KeyError"]
                 ELSE [acc EXCEPT !.index[side] = DelItem(@, data.id),
                                  !.book[side] = DelItem(@, delete_price)]

\* DeleteEntry that leaves the identifier in the index.
DeleteEntry_KeepIndex(acc, data) ==
    LET side == SideOf(data)
    IN  IF data.id \notin DOMAIN acc.index[side]
        THEN [acc EXCEPT !.raised = "KeyError"]
        ELSE LET delete_price == acc.index[side][data.id]
             IN  IF delete_price \notin DOMAIN acc.book[side]
                 THEN [acc EXCEPT !.raised = "KeyError"]
                 ELSE [acc EXCEPT !.book[side] = DelItem(@, delete_price),
                                  !.delta[side] = Append(@, <<delete_price, 0>>)]

\* DeleteEntry that leaves the level in the book.
DeleteEntry_KeepLevel(acc, data) ==
    LET side == SideOf(data)
    IN  IF data.id \notin DOMAIN acc.index[side]
        THEN [acc EXCEPT !.raised = "KeyError"]
        ELSE LET delete_price == acc.index[side][data.id]
                 unindexed == [acc EXCEPT !.index[side] = DelItem(@, data.id)]
             IN  IF delete_price \notin DOMAIN acc.book[side]
                 THEN [unindexed EXCEPT !.raised = "KeyError"]
                 ELSE [unindexed EXCEPT !.delta[side] = Append(@, <<delete_price, 0>>)]

DeleteEntry(acc, data) ==
    LET side == SideOf(data)
    IN  IF data.id \notin DOMAIN acc.index[side]
        THEN [acc EXCEPT !.raised = "KeyError"]
        ELSE LET delete_price == acc.index[side][data.id]
                 unindexed == [acc EXCEPT !.index[side] = DelItem(@, data.id)]
             IN  IF delete_price \notin DOMAIN acc.book[side]
                 THEN [unindexed EXCEPT !.raised = "KeyError"]
                 ELSE [unindexed EXCEPT !.book[side] = DelItem(@, delete_price),
                                        !.delta[side] = Append(@, <<delete_price, 0>>)]

Entry(action, acc, data) ==
    CASE action = "partial" -> PartialEntry(acc, data)
      [] action = "insert" -> InsertEntry(acc, data)
      [] action = "update" -> UpdateEntry(acc, data)
      [] action = "delete" -> DeleteEntry(acc, data)

\* for data in msg['data']: ... ; an exception ends the loop where it is raised.
RECURSIVE Entries(_, _, _, _)
Entries(action, acc, data, i) ==
    IF i > Len(data) \/ acc.raised # ""
    THEN acc
    ELSE Entries(action, Entry(action, acc, data[i]), data, i + 1)

\* Deliver that hands the book to book_callback twice.
Deliver_Twice(st, pair, forced, acc) ==
    [partial_received |-> [st.partial_received EXCEPT ![pair] = TRUE],
     l2_book |-> [st.l2_book EXCEPT ![pair] = acc.book],
     order_id |-> [st.order_id EXCEPT ![pair] = acc.index],
     raised |-> acc.raised,
     callbacks |-> IF acc.raised # "" THEN <<>>
                   ELSE LET update == [channel |-> L2_BOOK,
                                       pair |-> pair,
                                       book |-> acc.book,
                                       forced |-> forced,
                                       delta |-> acc.delta]
                        IN  <<update, update>>,
     log |-> <<>>]

\* Deliver that resets the whole engine when the loop raised.
Deliver_ResetsOnFailure(st, pair, forced, acc) ==
    IF acc.raised # ""
    THEN [partial_received |-> [p \in DOMAIN st.partial_received |-> FALSE],
          l2_book |-> [p \in DOMAIN st.l2_book |-> [s \in Sides |-> EmptyMap]],
          order_id |-> [p \in DOMAIN st.order_id |-> [s \in Sides |-> EmptyMap]],
          raised |-> acc.raised,
          callbacks |-> <<>>,
          log |-> <<>>]
    ELSE [partial_received |-> [st.partial_received EXCEPT ![pair] = TRUE],
          l2_book |-> [st.l2_book EXCEPT ![pair] = acc.book],
          order_id |-> [st.order_id EXCEPT ![pair] = acc.index],
          raised |-> acc.raised,
          callbacks |-> <<[channel |-> L2_BOOK,
                           pair |-> pair,
                           book |-> acc.book,
                           forced |-> forced,
                           delta |-> acc.delta]>>,
          log |-> <<>>]

\* Deliver that hands the book to book_callback also when the loop raised.
Deliver_DespiteFailure(st, pair, forced, acc) ==
    [partial_received |-> [st.partial_received EXCEPT ![pair] = TRUE],
     l2_book |-> [st.l2_book EXCEPT ![pair] = acc.book],
     order_id |-> [st.order_id EXCEPT ![pair] = acc.index],
     raised |-> acc.raised,
     callbacks |-> <<[channel |-> L2_BOOK,
                      pair |-> pair,
                      book |-> acc.book,
                      forced |-> forced,
                      delta |-> acc.delta]>>,
     log |-> <<>>]

\* Deliver that marks no BookUpdate forced.
Deliver_NeverForced(st, pair, forced, acc) ==
    [partial_received |-> [st.partial_received EXCEPT ![pair] = TRUE],
     l2_book |-> [st.l2_book EXCEPT ![pair] = acc.book],
     order_id |-> [st.order_id EXCEPT ![pair] = acc.index],
     raised |-> acc.raised,
     callbacks |-> IF acc.raised # "" THEN <<>>
                   ELSE <<[channel |-> L2_BOOK,
                           pair |-> pair,
                           book |-> acc.book,
                           forced |-> FALSE,
                           delta |-> acc.delta]>>,
     log |-> <<>>]

\* Deliver that marks every BookUpdate forced.
Deliver_AlwaysForced(st, pair, forced, acc) ==
    [partial_received |-> [st.partial_received EXCEPT ![pair] = TRUE],
     l2_book |-> [st.l2_book EXCEPT ![pair] = acc.book],
     order_id |-> [st.order_id EXCEPT ![pair] = acc.index],
     raised |-> acc.raised,
     callbacks |-> IF acc.raised # "" THEN <<>>
                   ELSE <<[channel |-> L2_BOOK,
                           pair |-> pair,
                           book |-> acc.book,
                           forced |-> TRUE,
                           delta |-> acc.delta]>>,
     log |-> <<>>]

\* The end of _book once the loop over the entries has left acc: an exception
\* goes to the caller, otherwise book_callback gets the pair's book, forced and
\* the delta.
Deliver(st, pair, forced, acc) ==
    [partial_received |-> [st.partial_received EXCEPT ![pair] = TRUE],
     l2_book |-> [st.l2_book EXCEPT ![pair] = acc.book],
     order_id |-> [st.order_id EXCEPT ![pair] = acc.index],
     raised |-> acc.raised,
     callbacks |-> IF acc.raised # "" THEN <<>>
                   ELSE <<[channel |-> L2_BOOK,
                           pair |-> pair,
                           book |-> acc.book,
                           forced |-> forced,
                           delta |-> acc.delta]>>,
     log |-> <<>>]

\* _book that goes on to book_callback after the warning of an unknown action.
Book_UnknownDelivers(st, m) ==
    LET pair == m.data[1].symbol
        quiet == [partial_received |-> st.partial_received,
                  l2_book |-> st.l2_book,
                  order_id |-> st.order_id,
                  raised |-> "", callbacks |-> <<>>, log |-> <<>>]
        start == [book |-> st.l2_book[pair],
                  index |-> st.order_id[pair],
                  delta |-> [s \in Sides |-> <<>>],
                  raised |-> ""]
    IN  IF m.data = <<>>
        THEN [quiet EXCEPT !.raised = "IndexError"]
        ELSE IF ~st.partial_received[pair] /\ m.action # "partial"
        THEN quiet
        ELSE IF m.action \in Actions
        THEN Deliver(st, pair, ~st.partial_received[pair],
                     Entries(m.action, start, m.data, 1))
        ELSE [Deliver(st, pair, FALSE, start) EXCEPT !.log = <<"warning">>]

\* _book that opens the gate before it checks the action.
Book_OpensGateFirst(st, m) ==
    LET pair == m.data[1].symbol
        quiet == [partial_received |-> st.partial_received,
                  l2_book |-> st.l2_book,
                  order_id |-> st.order_id,
                  raised |-> "", callbacks |-> <<>>, log |-> <<>>]
    IN  IF m.data = <<>>
        THEN [quiet EXCEPT !.raised = "IndexError"]
        ELSE IF ~st.partial_received[pair] /\ m.action # "partial"
        THEN [quiet EXCEPT !.partial_received[pair] = TRUE]
        ELSE IF m.action \in Actions
        THEN Deliver(st, pair, ~st.partial_received[pair],
                     Entries(m.action,
                             [book |-> st.l2_book[pair],
                              index |-> st.order_id[pair],
                              delta |-> [s \in Sides |-> <<>>],
                              raised |-> ""],
                             m.data, 1))
        ELSE [quiet EXCEPT !.log = <<"warning">>]

\* _book that takes the pair from the last entry of the message.
Book_LastEntrySymbol(st, m) ==
    LET pair == m.data[Len(m.data)].symbol
        quiet == [partial_received |-> st.partial_received,
                  l2_book |-> st.l2_book,
                  order_id |-> st.order_id,
                  raised |-> "", callbacks |-> <<>>, log |-> <<>>]
    IN  IF m.data = <<>>
        THEN [quiet EXCEPT !.raised = "IndexError"]
        ELSE IF ~st.partial_received[pair] /\ m.action # "partial"
        THEN quiet
        ELSE IF m.action \in Actions
        THEN Deliver(st, pair, ~st.partial_received[pair],
                     Entries(m.action,
                             [book |-> st.l2_book[pair],
                              index |-> st.order_id[pair],
                              delta |-> [s \in Sides |-> <<>>],
                              raised |-> ""],
                             m.data, 1))
        ELSE [quiet EXCEPT !.log = <<"warning">>]

\* _book without the discard of the messages that precede the partial.
Book_Ungated(st, m) ==
    LET pair == m.data[1].symbol
    IN  IF m.data = <<>>
        THEN [partial_received |-> st.partial_received,
              l2_book |-> st.l2_book,
              order_id |-> st.order_id,
              raised |-> "IndexError", callbacks |-> <<>>, log |-> <<>>]
        ELSE IF m.action \in Actions
        THEN Deliver(st, pair, ~st.partial_received[pair],
                     Entries(m.action,
                             [book |-> st.l2_book[pair],
                              index |-> st.order_id[pair],
                              delta |-> [s \in Sides |-> <<>>],
                              raised |-> ""],
                             m.data, 1))
        ELSE [partial_received |-> st.partial_received,
              l2_book |-> st.l2_book,
              order_id |-> st.order_id,
              raised |-> "", callbacks |-> <<>>, log |-> <<"warning">>]

\* Bitmex._book(msg) run from engine state st: the engine state it leaves and
\* what it did (the exception it raised, the callbacks it made, what it logged).
\* msg['data'][0] of an empty data list raises IndexError before anything else.
Book(st, m) ==
    LET pair == m.data[1].symbol
        quiet == [partial_received |-> st.partial_received,
                  l2_book |-> st.l2_book,
                  order_id |-> st.order_id,
                  raised |-> "", callbacks |-> <<>>, log |-> <<>>]
    IN  IF m.data = <<>>
        THEN [quiet EXCEPT !.raised = "IndexError"]
        ELSE IF ~st.partial_received[pair] /\ m.action # "partial"
        THEN quiet
        ELSE IF m.action \in Actions
        THEN Deliver(st, pair, ~st.partial_received[pair],
                     Entries(m.action,
                             [book |-> st.l2_book[pair],
                              index |-> st.order_id[pair],
                              delta |-> [s \in Sides |-> <<>>],
                              raised |-> ""],
                             m.data, 1))
        ELSE [quiet EXCEPT !.log = <<"warning">>]

\* ---------------------------------------------------------------- _trade
\* Bitmex._trade: one TRADES callback per entry; the engine is not touched.
Trade(st, m) ==
    [partial_received |-> st.partial_received,
     l2_book |-> st.l2_book,
     order_id |-> st.order_id,
     raised |-> "",
     callbacks |-> [i \in 1..Len(m.data) |->
                       [channel |-> TRADES, pair |-> m.data[i].symbol]],
     log |-> <<>>]

\* ---------------------------------------------------------------- _ticker
\* Bitmex._ticker: one TICKER callback per entry; the engine is not touched.
Ticker(st, m) ==
    [partial_received |-> st.partial_received,
     l2_book |-> st.l2_book,
     order_id |-> st.order_id,
     raised |-> "",
     callbacks |-> [i \in 1..Len(m.data) |->
                       [channel |-> TICKER, pair |-> m.data[i].symbol]],
     log |-> <<>>]

\* ---------------------------------------------------------------- _funding
\* Bitmex._funding: one FUNDING callback per entry; the engine is not touched.
Funding(st, m) ==
    [partial_received |-> st.partial_received,
     l2_book |-> st.l2_book,
     order_id |-> st.order_id,
     raised |-> "",
     callbacks |-> [i \in 1..Len(m.data) |->
                       [channel |-> FUNDING, pair |-> m.data[i].symbol]],
     log |-> <<>>]

\* ---------------------------------------------------------------- _instrument
\* Whether an instrument entry carries the openInterest key.
HasOpenInterest(data) == "openInterest" \in DOMAIN data

\* Bitmex._instrument: one OPEN_INTEREST callback per entry that carries
\* openInterest, in order; the engine is not touched.
Instrument(st, m) ==
    LET reported == SelectSeq(m.data, HasOpenInterest)
    IN  [partial_received |-> st.partial_received,
         l2_book |-> st.l2_book,
         order_id |-> st.order_id,
         raised |-> "",
         callbacks |-> [i \in 1..Len(reported) |->
                           [channel |-> OPEN_INTEREST, pair |-> reported[i].symbol]],
         log |-> <<>>]

\* ---------------------------------------------------------------- message_handler
\* Bitmex.message_handler: a message holding the key info, subscribe or error
\* (table names the key here) is a control message: info and error are
\* logged, a subscription acknowledgement is logged only when it reports a
\* failure. A data message goes to the handler of its table; any other table
\* is logged and dropped.
message_handler(st, m) ==
    LET quiet == [partial_received |-> st.partial_received,
                  l2_book |-> st.l2_book,
                  order_id |-> st.order_id,
                  raised |-> "", callbacks |-> <<>>, log |-> <<>>]
        logged(level) == [quiet EXCEPT !.log = <<level>>]
    IN  CASE m.table = "info" -> logged("info")
          [] m.table = "subscribe" -> IF ~m.success THEN logged("error") ELSE quiet
          [] m.table = "error" -> logged("error")
          [] m.table = "trade" -> Trade(st, m)
          [] m.table = "orderBookL2" -> Book(st, m)
          [] m.table = "funding" -> Funding(st, m)
          [] m.table = "instrument" -> Instrument(st, m)
          [] m.table = "quote" -> Ticker(st, m)
          [] OTHER -> logged("warning")

\* ---------------------------------------------------------------- consumer
\* A consumer of the delta of one side: (price, size) sets the level, size 0
\* removes it.
RECURSIVE ApplyDelta(_, _, _)
ApplyDelta(side_book, delta, i) ==
    IF i > Len(delta) THEN side_book
    ELSE LET price == delta[i][1]
             size == delta[i][2]
         IN  ApplyDelta(IF size = 0
                        THEN [x \in (DOMAIN side_book) \ {price} |-> side_book[x]]
                        ELSE SetItem(side_book, price, size),
                        delta, i + 1)

\* The consumer's copy after one BookUpdate: replaced by the engine's book
\* when forced, patched by the delta otherwise.
Consume(copy, update) ==
    IF update.forced THEN update.book
    ELSE [s \in Sides |-> ApplyDelta(copy[s], update.delta[s], 1)]

\* The consumer's copies after the callbacks of one handler run, in order.
RECURSIVE ConsumeAll(_, _, _)
ConsumeAll(copies, callbacks, i) ==
    IF i > Len(callbacks) THEN copies
    ELSE LET c == callbacks[i]
         IN  ConsumeAll(IF c.channel = L2_BOOK
                        THEN [copies EXCEPT ![c.pair] = Consume(@, c)]
                        ELSE copies,
                        callbacks, i + 1)

\* ---------------------------------------------------------------- inputs
SeqsUpTo(S, n) == UNION {[1..k -> S] : k \in 1..n}

\* The size an entry carries: a partial or insert entry of identifier 1 rests
\* 5 and of identifier 2 rests 3; an update entry of identifier 1 carries 3
\* and of identifier 2 carries 7.
RestingSize(id) == IF id = 1 THEN 5 ELSE 3
AmendedSize(id) == IF id = 1 THEN 3 ELSE 7

\* The entries of a partial or insert, of an update and of a delete message for
\* symbol p with side token t.
PriceEntries(p, t) ==
    {[symbol |-> p, side |-> t, price |-> x, size |-> RestingSize(i), id |-> i] :
        x \in Prices, i \in Ids}
UpdateEntries(p, t) ==
    {[symbol |-> p, side |-> t, size |-> AmendedSize(i), id |-> i] : i \in Ids}
DeleteEntries(p, t) ==
    {[symbol |-> p, side |-> t, id |-> i] : i \in Ids}

\* orderBookL2 messages for symbol p, all entries with side token t.
BookMsgsOf(p, t) ==
    [table : {"orderBookL2"}, action : {"partial", "insert"},
     data : SeqsUpTo(PriceEntries(p, t), MaxEntries)]
    \cup [table : {"orderBookL2"}, action : {"update"},
          data : SeqsUpTo(UpdateEntries(p, t), MaxEntries)]
    \cup [table : {"orderBookL2"}, action : {"delete"},
          data : SeqsUpTo(DeleteEntries(p, t), MaxEntries)]

OtherMsgs ==
    {[table |-> "orderBookL2", action |-> "amend",
      data |-> <<[symbol |-> "XBTUSD", side |-> "Buy", id |-> 1]>>],
     [table |-> "orderBookL2", action |-> "partial", data |-> <<>>],
     [table |-> "info", action |-> "none", data |-> <<>>],
     [table |-> "subscribe", action |-> "none", data |-> <<>>, success |-> TRUE],
     [table |-> "subscribe", action |-> "none", data |-> <<>>, success |-> FALSE],
     [table |-> "error", action |-> "none", data |-> <<>>],
     [table |-> "trade", action |-> "insert", data |-> <<[symbol |-> "XBTUSD"]>>],
     [table |-> "funding", action |-> "partial", data |-> <<[symbol |-> "XBTUSD"]>>],
     [table |-> "instrument", action |-> "update",
      data |-> <<[symbol |-> "XBTUSD", openInterest |-> 7]>>],
     [table |-> "instrument", action |-> "update", data |-> <<[symbol |-> "XBTUSD"]>>],
     [table |-> "quote", action |-> "insert", data |-> <<[symbol |-> "XBTUSD"]>>],
     [table |-> "chat", action |-> "insert", data |-> <<>>]}

Msgs == UNION {BookMsgsOf("XBTUSD", t) : t \in SideTokens} \cup OtherMsgs

\* The messages of one entry (and those of none).
SingleMsgs == {m \in Msgs : Len(m.data) <= 1}

\* Messages for an engine of the two symbols of TwoPairs, every entry a Buy:
\* the messages of one entry and those of two entries, each entry naming
\* either symbol.
TwoPairs == {"XBTUSD", "ETHUSD"}
PairEntries(action) ==
    CASE action \in {"partial", "insert"} ->
             {[symbol |-> p, side |-> "Buy", price |-> x,
               size |-> RestingSize(i), id |-> i] : p \in TwoPairs, x \in Prices, i \in Ids}
      [] action = "update" ->
             {[symbol |-> p, side |-> "Buy", size |-> AmendedSize(i), id |-> i] :
                 p \in TwoPairs, i \in Ids}
      [] action = "delete" ->
             {[symbol |-> p, side |-> "Buy", id |-> i] : p \in TwoPairs, i \in Ids}
PairMsgs ==
    UNION {{[table |-> "orderBookL2", action |-> a, data |-> <<e>>] : e \in PairEntries(a)}
           \cup {[table |-> "orderBookL2", action |-> a, data |-> d] :
                    d \in PairEntries(a) \X PairEntries(a)}
           : a \in Actions}
    \cup OtherMsgs

\* The scenario of the specification's testable property 7.
Scenario ==
    <<[table |-> "orderBookL2", action |-> "partial",
       data |-> <<[symbol |-> "XBTUSD", side |-> "Buy", price |-> 100, size |-> 5, id |-> 1]>>],
      [table |-> "orderBookL2", action |-> "insert",
       data |-> <<[symbol |-> "XBTUSD", side |-> "Buy", price |-> 99, size |-> 3, id |-> 2]>>],
      [table |-> "orderBookL2", action |-> "update",
       data |-> <<[symbol |-> "XBTUSD", side |-> "Buy", size |-> 7, id |-> 2]>>],
      [table |-> "orderBookL2", action |-> "delete",
       data |-> <<[symbol |-> "XBTUSD", side |-> "Buy", id |-> 1]>>]>>

\* ---------------------------------------------------------------- actions
\* The engine as Bitmex.__init__ leaves it: _reset() over the configured pairs.
Constructed(ps, armed, replaying, recording) ==
    /\ pairs = ps
    /\ partial_received = ResetState(ps).partial_received
    /\ l2_book = ResetState(ps).l2_book
    /\ order_id = ResetState(ps).order_id
    /\ pc = "idle"
    /\ op = "none"
    /\ msg = NoMsg
    /\ pre = NoPre
    /\ out = NoOut
    /\ nmsgs = 0
    /\ resets = 1
    /\ snapshot_seen = [p \in ps |-> FALSE]
    /\ last_write = [p \in ps |-> [s \in Sides |-> EmptyMap]]
    /\ tracking = recording
    /\ sink = <<>>
    /\ accepted = <<>>
    /\ consumer = replaying
    /\ replica = ResetState(ps).l2_book
    /\ first_update = [p \in ps |-> NoUpdate]
    /\ shared_price = [p \in ps |-> FALSE]
    /\ moved_id = [p \in ps |-> FALSE]
    /\ failed = FALSE
    /\ scenario = [armed |-> armed, on |-> armed, step |-> 0]

Init == Constructed({"XBTUSD"}, FALSE, FALSE, FALSE)

\* The first BookUpdate of each symbol since the last reset, after the
\* callbacks of a handler run on message m.
RECURSIVE FirstUpdates(_, _, _, _)
FirstUpdates(firsts, m, callbacks, i) ==
    IF i > Len(callbacks) THEN firsts
    ELSE LET c == callbacks[i]
         IN  FirstUpdates(IF c.channel = L2_BOOK /\ firsts[c.pair] = NoUpdate
                          THEN [firsts EXCEPT ![c.pair] =
                                   [action |-> m.action, forced |-> c.forced]]
                          ELSE firsts,
                          m, callbacks, i + 1)

\* Whether, while _book applies data[i..] of a partial or insert from loop state
\* acc, an entry indexes its identifier at a price at which another identifier
\* of the same side is indexed.
RECURSIVE SharesPrice(_, _, _, _)
SharesPrice(action, acc, data, i) ==
    IF i > Len(data) THEN FALSE
    ELSE LET side == SideOf(data[i])
         IN  \/ \E o \in (DOMAIN acc.index[side]) \ {data[i].id} :
                    acc.index[side][o] = data[i].price
             \/ SharesPrice(action, Entry(action, acc, data[i]), data, i + 1)

\* shared_price after message m is handled from engine state st.
SharedAfter(shared, st, m) ==
    IF m.table = "orderBookL2" /\ m.action \in {"partial", "insert"}
       /\ m.data # <<>>
       /\ (st.partial_received[m.data[1].symbol] \/ m.action = "partial")
    THEN LET pair == m.data[1].symbol
         IN  [shared EXCEPT ![pair] =
                 @ \/ SharesPrice(m.action,
                                  [book |-> st.l2_book[pair], index |-> st.order_id[pair],
                                   delta |-> [s \in Sides |-> <<>>], raised |-> ""],
                                  m.data, 1)]
    ELSE shared

\* Whether, while _book applies data[i..] of a partial or insert from loop state
\* acc, an entry names an identifier that the index of its side holds at a
\* price other than the entry's.
RECURSIVE MovesId(_, _, _, _)
MovesId(action, acc, data, i) ==
    IF i > Len(data) THEN FALSE
    ELSE LET side == SideOf(data[i])
         IN  \/ /\ data[i].id \in DOMAIN acc.index[side]
                /\ acc.index[side][data[i].id] # data[i].price
             \/ MovesId(action, Entry(action, acc, data[i]), data, i + 1)

\* moved_id after message m is handled from engine state st.
MovedAfter(moved, st, m) ==
    IF m.table = "orderBookL2" /\ m.action \in {"partial", "insert"}
       /\ m.data # <<>>
       /\ (st.partial_received[m.data[1].symbol] \/ m.action = "partial")
    THEN LET pair == m.data[1].symbol
         IN  [moved EXCEPT ![pair] =
                 @ \/ MovesId(m.action,
                              [book |-> st.l2_book[pair], index |-> st.order_id[pair],
                               delta |-> [s \in Sides |-> <<>>], raised |-> ""],
                              m.data, 1)]
    ELSE moved

\* The record of the last writes of one pair after _book applies data[i..] from
\* loop state acc: an entry that completes is a write of its size to its
\* price (the indexed price of its identifier, for an update) or a delete of
\* the indexed price of its identifier; the entry that raises and those after
\* it are not applied, and an entry that names no indexed identifier writes no
\* level.
RECURSIVE LastWrites(_, _, _, _, _)
LastWrites(action, acc, writes, data, i) ==
    IF i > Len(data) THEN writes
    ELSE LET side == SideOf(data[i])
             next == Entry(action, acc, data[i])
             price == IF action \in {"partial", "insert"} THEN data[i].price
                      ELSE acc.index[side][data[i].id]
         IN  IF next.raised # "" THEN writes
             ELSE IF action \in {"update", "delete"}
                     /\ data[i].id \notin DOMAIN acc.index[side]
             THEN LastWrites(action, next, writes, data, i + 1)
             ELSE LastWrites(action, next,
                             [writes EXCEPT ![side] =
                                 IF action = "delete"
                                 THEN SetItem(@, price, [@[price] EXCEPT !.deleted = TRUE])
                                 ELSE SetItem(@, price, [size |-> data[i].size,
                                                         deleted |-> FALSE])],
                             data, i + 1)

\* last_write after message m is handled from engine state st.
WritesAfter(writes, st, m) ==
    IF m.table = "orderBookL2" /\ m.action \in Actions /\ m.data # <<>>
       /\ (st.partial_received[m.data[1].symbol] \/ m.action = "partial")
    THEN LET pair == m.data[1].symbol
         IN  [writes EXCEPT ![pair] =
                 LastWrites(m.action,
                            [book |-> st.l2_book[pair], index |-> st.order_id[pair],
                             delta |-> [s \in Sides |-> <<>>], raised |-> ""],
                            @, m.data, 1)]
    ELSE writes

\* A callback is a BookUpdate.
IsBookUpdate(c) == c.channel = L2_BOOK

\* Message m, handled from engine state st, is a book message that passes the
\* gate with a known action: a partial, or an insert, update or delete with
\* the gate of its symbol open.
Accepts(st, m) ==
    /\ m.table = "orderBookL2" /\ m.data # <<>> /\ m.action \in Actions
    /\ (m.action = "partial" \/ st.partial_received[m.data[1].symbol])

\* One inbound message is decoded and handled to completion.
MessageHandler(m) ==
    /\ pc = "idle"
    /\ \E r \in {message_handler(EngineState, m)} :
           /\ partial_received' = r.partial_received
           /\ l2_book' = r.l2_book
           /\ order_id' = r.order_id
           /\ out' = [raised |-> r.raised, callbacks |-> r.callbacks, log |-> r.log]
           /\ replica' = IF consumer THEN ConsumeAll(replica, r.callbacks, 1) ELSE replica
           /\ first_update' = FirstUpdates(first_update, m, r.callbacks, 1)
           /\ failed' = (failed \/ r.raised # "")
           /\ sink' = IF tracking
                      THEN sink \o [i \in 1..Len(SelectSeq(r.callbacks, IsBookUpdate)) |->
                                       nmsgs + 1]
                      ELSE sink
           /\ accepted' = IF tracking /\ Accepts(EngineState, m) /\ r.raised = ""
                          THEN Append(accepted, nmsgs + 1)
                          ELSE accepted
    /\ shared_price' = SharedAfter(shared_price, EngineState, m)
    /\ moved_id' = MovedAfter(moved_id, EngineState, m)
    /\ pc' = "done"
    /\ op' = "message_handler"
    /\ msg' = m
    /\ pre' = [EngineState EXCEPT !.replica = replica]
    /\ nmsgs' = nmsgs + 1
    /\ resets' = 0
    /\ last_write' = WritesAfter(last_write, EngineState, m)
    /\ snapshot_seen' = IF m.table = "orderBookL2" /\ m.action = "partial" /\ m.data # <<>>
                        THEN [snapshot_seen EXCEPT ![m.data[1].symbol] = TRUE]
                        ELSE snapshot_seen
    /\ scenario' = IF scenario.on /\ scenario.step < Len(Scenario)
                      /\ m = Scenario[scenario.step + 1]
                   THEN [scenario EXCEPT !.step = @ + 1]
                   ELSE [scenario EXCEPT !.on = FALSE, !.step = 0]
    /\ UNCHANGED <<pairs, consumer, tracking>>

\* Bitmex.subscribe: _reset(), then the subscription message is sent.
\* subscribe that leaves the gates as they are.
Subscribe_KeepsGates ==
    /\ pc = "idle"
    /\ l2_book' = ResetState(pairs).l2_book
    /\ order_id' = ResetState(pairs).order_id
    /\ pc' = "done"
    /\ op' = "subscribe"
    /\ msg' = NoMsg
    /\ pre' = [EngineState EXCEPT !.replica = replica]
    /\ out' = [NoOut EXCEPT !.log = <<"_reset", "send">>]
    /\ resets' = IF resets < 2 THEN resets + 1 ELSE resets
    /\ snapshot_seen' = [p \in pairs |-> FALSE]
    /\ last_write' = [p \in pairs |-> [s \in Sides |-> EmptyMap]]
    /\ first_update' = [p \in pairs |-> NoUpdate]
    /\ shared_price' = [p \in pairs |-> FALSE]
    /\ moved_id' = [p \in pairs |-> FALSE]
    /\ scenario' = [scenario EXCEPT !.on = scenario.armed, !.step = 0]
    /\ UNCHANGED <<pairs, partial_received, nmsgs, consumer, replica, failed,
                   tracking, sink, accepted>>

\* subscribe that leaves the books as they are.
Subscribe_KeepsBooks ==
    /\ pc = "idle"
    /\ partial_received' = ResetState(pairs).partial_received
    /\ order_id' = ResetState(pairs).order_id
    /\ pc' = "done"
    /\ op' = "subscribe"
    /\ msg' = NoMsg
    /\ pre' = [EngineState EXCEPT !.replica = replica]
    /\ out' = [NoOut EXCEPT !.log = <<"_reset", "send">>]
    /\ resets' = IF resets < 2 THEN resets + 1 ELSE resets
    /\ snapshot_seen' = [p \in pairs |-> FALSE]
    /\ last_write' = [p \in pairs |-> [s \in Sides |-> EmptyMap]]
    /\ first_update' = [p \in pairs |-> NoUpdate]
    /\ shared_price' = [p \in pairs |-> FALSE]
    /\ moved_id' = [p \in pairs |-> FALSE]
    /\ scenario' = [scenario EXCEPT !.on = scenario.armed, !.step = 0]
    /\ UNCHANGED <<pairs, l2_book, nmsgs, consumer, replica, failed,
                   tracking, sink, accepted>>

Subscribe ==
    /\ pc = "idle"
    /\ partial_received' = ResetState(pairs).partial_received
    /\ l2_book' = ResetState(pairs).l2_book
    /\ order_id' = ResetState(pairs).order_id
    /\ pc' = "done"
    /\ op' = "subscribe"
    /\ msg' = NoMsg
    /\ pre' = [EngineState EXCEPT !.replica = replica]
    /\ out' = [NoOut EXCEPT !.log = <<"_reset", "send">>]
    /\ resets' = IF resets < 2 THEN resets + 1 ELSE resets
    /\ snapshot_seen' = [p \in pairs |-> FALSE]
    /\ last_write' = [p \in pairs |-> [s \in Sides |-> EmptyMap]]
    /\ first_update' = [p \in pairs |-> NoUpdate]
    /\ shared_price' = [p \in pairs |-> FALSE]
    /\ moved_id' = [p \in pairs |-> FALSE]
    /\ scenario' = [scenario EXCEPT !.on = scenario.armed, !.step = 0]
    /\ UNCHANGED <<pairs, nmsgs, consumer, replica, failed,
                   tracking, sink, accepted>>

\* The handler has ended; the connection loop awaits the next event.
Return ==
    /\ pc = "done"
    /\ pc' = "idle"
    /\ op' = "none"
    /\ msg' = NoMsg
    /\ pre' = NoPre
    /\ out' = NoOut
    /\ UNCHANGED <<pairs, partial_received, l2_book, order_id, nmsgs, resets,
                   snapshot_seen, last_write, tracking, sink, accepted, consumer, replica, first_update, shared_price, moved_id, failed, scenario>>

\* The connection loop: while it awaits an event, the next message arrives (a
\* run handles a bounded number of them) or the connection is made anew and
\* subscribe runs.
Next ==
    \/ pc = "idle" /\ nmsgs < MaxMsgs /\ \E m \in Msgs : MessageHandler(m)
    \/ Subscribe
    \/ Return

Spec == Init /\ [][Next]_vars

\* The same loop over messages of one entry, in longer runs, with the
\* scenario tracked and the copy-keeping consumer registered.
NextSingle ==
    \/ pc = "idle" /\ nmsgs < MaxSingleMsgs /\ \E m \in SingleMsgs : MessageHandler(m)
    \/ Subscribe
    \/ Return

InitSingle == Constructed({"XBTUSD"}, TRUE, TRUE, FALSE)

SpecSingle == InitSingle /\ [][NextSingle]_vars

\* The same loop for an engine configured with two symbols.
NextPairs ==
    \/ pc = "idle" /\ nmsgs < MaxPairMsgs /\ \E m \in PairMsgs : MessageHandler(m)
    \/ Subscribe
    \/ Return

InitPairs == Constructed(TwoPairs, FALSE, FALSE, FALSE)

SpecPairs == InitPairs /\ [][NextPairs]_vars

\* The loop over messages of one entry with the deliveries recorded.
NextSink ==
    \/ pc = "idle" /\ nmsgs < MaxSinkMsgs /\ \E m \in SingleMsgs : MessageHandler(m)
    \/ Subscribe
    \/ Return

InitSink == Constructed({"XBTUSD"}, FALSE, FALSE, TRUE)

SpecSink == InitSink /\ [][NextSink]_vars

\* The messages of Spec with the copy-keeping consumer registered.
InitReplay == Constructed({"XBTUSD"}, FALSE, TRUE, FALSE)

SpecReplay == InitReplay /\ [][Next]_vars

\* ================================================================ properties
\* A handler of an inbound message has just ended: msg is the message, pre the
\* engine before it, out what the handler did.
Handled == pc = "done" /\ op = "message_handler"
BookHandled == Handled /\ msg.table = "orderBookL2" /\ msg.data # <<>>
\* pair = msg['data'][0]['symbol']
Pair == msg.data[1].symbol
Diffs == {"insert", "update", "delete"}
\* The gate of the message's symbol was open when the handler began.
GateWasOpen == pre.partial_received[Pair]
\* The indices of the message's entries on a side.
EntriesOn(side) == {i \in 1..Len(msg.data) : SideOf(msg.data[i]) = side}
\* The loop state _book began with.
PreAcc == [book |-> pre.l2_book[Pair], index |-> pre.order_id[Pair],
           delta |-> [s \in Sides |-> <<>>], raised |-> ""]

\* ---------------------------------------------------------------- C1
\* C1 (gating): an insert, update or delete handled while the gate of its
\* symbol is closed leaves the symbol's book, index and gate as they were and
\* delivers no BookUpdate.
C1_Gating ==
    (BookHandled /\ msg.action \in Diffs /\ ~GateWasOpen)
    => /\ l2_book[Pair] = pre.l2_book[Pair]
       /\ order_id[Pair] = pre.order_id[Pair]
       /\ ~partial_received[Pair]
       /\ out.callbacks = <<>>

\* A delete arrives as the second message of a run while the gate is closed.
C1_Witness ==
    BookHandled /\ msg.action = "delete" /\ ~GateWasOpen /\ nmsgs > 1

\* ---------------------------------------------------------------- C2
IndexConsistent(p) ==
    \A s \in Sides : \A i \in DOMAIN order_id[p][s] :
        order_id[p][s][i] \in DOMAIN l2_book[p][s]

\* C2 as stated (index consistency): as long as no message has failed, every
\* indexed identifier's price has a level in the book of its side.
C2_Original == ~failed => \A p \in pairs : IndexConsistent(p)

\* C2 as amended: every indexed identifier's price has a level in the book of
\* its side, for every symbol for which, since the last reset, no partial or
\* insert entry indexed an identifier at a price at which another identifier of
\* the same side was indexed.
C2_IndexConsistency ==
    \A p \in pairs : ~shared_price[p] => IndexConsistent(p)

\* A delete has removed one of two identifiers resting at different prices.
C2_Witness ==
    /\ BookHandled /\ msg.action = "delete" /\ out.raised = ""
    /\ ~shared_price[Pair]
    /\ \E s \in Sides : order_id[Pair][s] # EmptyMap /\ order_id[Pair][s] # pre.order_id[Pair][s]

\* ---------------------------------------------------------------- C3
\* Some entry of the handled update or delete names an identifier the index
\* of its side did not hold when the handler began.
NamesUnknownId ==
    /\ BookHandled /\ msg.action \in {"update", "delete"} /\ GateWasOpen
    /\ \E i \in 1..Len(msg.data) :
           msg.data[i].id \notin DOMAIN pre.order_id[Pair][SideOf(msg.data[i])]

\* C3 as stated (unknown-id failure): such a message raises and leaves the
\* symbol's book and index as they were before it.
C3_Original ==
    NamesUnknownId
    => /\ out.raised = "KeyError"
       /\ l2_book[Pair] = pre.l2_book[Pair]
       /\ order_id[Pair] = pre.order_id[Pair]

\* The position of the entry at which the loop of the handled message raised.
FailedAt ==
    CHOOSE k \in 1..Len(msg.data) :
        /\ Entries(msg.action, PreAcc, SubSeq(msg.data, 1, k), 1).raised # ""
        /\ \A j \in 1..(k - 1) :
               Entries(msg.action, PreAcc, SubSeq(msg.data, 1, j), 1).raised = ""

\* C3 as amended: such a message raises KeyError; when the entry it raises at
\* names an identifier the index does not hold at that point, the book and the
\* index are those left by the entries before it (the values before the
\* message when it is the first entry), and no later entry is applied.
C3_UnknownIdFailure ==
    NamesUnknownId
    => /\ out.raised = "KeyError"
       /\ LET k == FailedAt
               before == Entries(msg.action, PreAcc, SubSeq(msg.data, 1, k - 1), 1)
           IN  msg.data[k].id \notin DOMAIN before.index[SideOf(msg.data[k])]
               => /\ l2_book[Pair] = before.book
                  /\ order_id[Pair] = before.index
                  /\ k = 1 => /\ l2_book[Pair] = pre.l2_book[Pair]
                              /\ order_id[Pair] = pre.order_id[Pair]

\* An update of a known identifier followed by one of an unknown identifier:
\* the message has raised and the first entry's new size is in the book.
C3_Witness ==
    /\ NamesUnknownId /\ msg.action = "update" /\ Len(msg.data) = 2
    /\ msg.data[1].id \in DOMAIN pre.order_id[Pair][SideOf(msg.data[1])]
    /\ out.raised = "KeyError"
    /\ l2_book[Pair] # pre.l2_book[Pair]

\* ---------------------------------------------------------------- C4
\* C4 as stated (snapshot is always forced): a handled partial leaves the gate
\* open and delivers one BookUpdate with forced = TRUE.
C4_Original ==
    (BookHandled /\ msg.action = "partial")
    => /\ partial_received[Pair]
       /\ Len(out.callbacks) = 1
       /\ out.callbacks[1].channel = L2_BOOK
       /\ out.callbacks[1].forced

\* C4 as amended: a handled partial leaves the gate open and delivers one
\* BookUpdate, whose forced is TRUE exactly when the gate was closed when the
\* partial arrived.
C4_SnapshotForced ==
    (BookHandled /\ msg.action = "partial")
    => /\ partial_received[Pair]
       /\ Len(out.callbacks) = 1
       /\ out.callbacks[1].channel = L2_BOOK
       /\ out.callbacks[1].pair = Pair
       /\ out.callbacks[1].forced = ~GateWasOpen

\* A partial handled while the gate was already open.
C4_Witness ==
    BookHandled /\ msg.action = "partial" /\ GateWasOpen /\ Len(out.callbacks) = 1

\* ---------------------------------------------------------------- C5
\* The prices of the message's entries on a side.
EntryPrices(side) == {msg.data[i].price : i \in EntriesOn(side)}
\* The size of the last entry of the message at a price on a side.
LastSizeAt(side, price) ==
    LET at == {i \in EntriesOn(side) : msg.data[i].price = price}
    IN  msg.data[CHOOSE i \in at : \A j \in at : j <= i].size

\* C5 as stated (snapshot replace): after a handled partial, each side of the
\* book holds the prices of the partial's entries of that side and no other,
\* each with the size of one of those entries.
C5_Original ==
    (BookHandled /\ msg.action = "partial")
    => \A s \in Sides :
          /\ DOMAIN l2_book[Pair][s] = EntryPrices(s)
          /\ \A x \in DOMAIN l2_book[Pair][s] :
                 \E i \in EntriesOn(s) :
                    msg.data[i].price = x /\ msg.data[i].size = l2_book[Pair][s][x]

\* C5 as amended: a handled partial sets, on each side, every price of its
\* entries to the size of the last entry at that price and leaves the levels it
\* does not mention as they were; the book holds the partial's levels and no
\* other when the gate was closed when it arrived.
C5_SnapshotMerge ==
    (BookHandled /\ msg.action = "partial")
    => \A s \in Sides :
          /\ DOMAIN l2_book[Pair][s] = (DOMAIN pre.l2_book[Pair][s]) \cup EntryPrices(s)
          /\ \A x \in EntryPrices(s) : l2_book[Pair][s][x] = LastSizeAt(s, x)
          /\ \A x \in (DOMAIN pre.l2_book[Pair][s]) \ EntryPrices(s) :
                 l2_book[Pair][s][x] = pre.l2_book[Pair][s][x]
          /\ ~GateWasOpen => DOMAIN l2_book[Pair][s] = EntryPrices(s)

\* A partial handled while the gate was open has left a level it does not
\* mention, beside two entries at one price of which the last one's size rests.
C5_Witness ==
    /\ BookHandled /\ msg.action = "partial" /\ GateWasOpen
    /\ \E s \in Sides :
          /\ DOMAIN l2_book[Pair][s] # EntryPrices(s)
          /\ Len(msg.data) = 2
          /\ msg.data[1].price = msg.data[2].price
          /\ msg.data[1].size # msg.data[2].size

\* ---------------------------------------------------------------- C6
\* One BookUpdate of the message's symbol has been delivered.
Delivered ==
    /\ BookHandled /\ Len(out.callbacks) = 1
    /\ out.callbacks[1].channel = L2_BOOK /\ out.callbacks[1].pair = Pair

\* C6 as stated (delta replay): after every delivered BookUpdate the copy of a
\* consumer that replaces it on forced = TRUE and patches it with the delta
\* otherwise equals the engine's book of the symbol.
C6_Original == (consumer /\ Delivered) => replica[Pair] = l2_book[Pair]

\* C6 as amended: after a delivered BookUpdate the consumer's copy equals the
\* engine's book of the symbol when the update is forced, and when it is the
\* update of an insert, update or delete (of entries of positive size) handled
\* while the copy equalled the engine's book.
C6_DeltaReplay ==
    (consumer /\ Delivered)
    => /\ out.callbacks[1].forced => replica[Pair] = l2_book[Pair]
       /\ (msg.action \in Diffs /\ pre.replica[Pair] = pre.l2_book[Pair])
          => replica[Pair] = l2_book[Pair]

\* A delete of two entries has been delivered with forced = FALSE to a
\* consumer whose copy equalled the book, and the delta changed the copy.
C6_Witness ==
    /\ consumer /\ Delivered /\ msg.action = "delete" /\ Len(msg.data) = 2
    /\ ~out.callbacks[1].forced
    /\ pre.replica[Pair] = pre.l2_book[Pair]
    /\ replica[Pair] # pre.replica[Pair]

\* ---------------------------------------------------------------- C7
\* C7 (bootstrap exposure): a BookUpdate is delivered for a symbol only with
\* its gate open, one delivered by a handler that found the gate closed is a
\* partial's and is forced, and the first BookUpdate of a symbol since the last
\* reset is a partial's and is forced; none has been delivered while the gate
\* is closed.
C7_BootstrapExposure ==
    /\ Delivered => /\ partial_received[Pair]
                    /\ ~GateWasOpen => /\ msg.action = "partial"
                                       /\ out.callbacks[1].forced
    /\ \A p \in pairs :
          /\ ~partial_received[p] => first_update[p] = NoUpdate
          /\ first_update[p] # NoUpdate
             => first_update[p].action = "partial" /\ first_update[p].forced

\* An insert has been delivered after the partial that opened the gate.
C7_Witness ==
    /\ Delivered /\ msg.action = "insert" /\ ~out.callbacks[1].forced
    /\ first_update[Pair] = [action |-> "partial", forced |-> TRUE]

\* ---------------------------------------------------------------- C8
\* The entries of the message on a side, in order.
SideSeq(side) == SelectSeq(msg.data, LAMBDA e : SideOf(e) = side)
\* The handled message is a delete, with the gate open, of identifiers that
\* differ from one another and that the index of their side held.
DeletesKnownIds ==
    /\ BookHandled /\ msg.action = "delete" /\ GateWasOpen
    /\ \A i \in 1..Len(msg.data) :
          /\ msg.data[i].id \in DOMAIN pre.order_id[Pair][SideOf(msg.data[i])]
          /\ \A j \in 1..Len(msg.data) :
                 (j # i /\ SideOf(msg.data[j]) = SideOf(msg.data[i]))
                 => msg.data[j].id # msg.data[i].id
\* The price the index held for entry i of the message.
IndexedPrice(i) == pre.order_id[Pair][SideOf(msg.data[i])][msg.data[i].id]
\* What such a delete does when it completes: each identifier leaves the
\* index, its level leaves the book, no other level or index entry changes,
\* and the delta of each side lists (price, 0) once per entry, in order.
DeleteEffect ==
    /\ out.raised = ""
    /\ Delivered /\ ~out.callbacks[1].forced
    /\ \A s \in Sides :
          LET ids == {msg.data[i].id : i \in EntriesOn(s)}
              gone == {IndexedPrice(i) : i \in EntriesOn(s)}
          IN  /\ order_id[Pair][s] =
                     [o \in (DOMAIN pre.order_id[Pair][s]) \ ids |-> pre.order_id[Pair][s][o]]
              /\ l2_book[Pair][s] =
                     [x \in (DOMAIN pre.l2_book[Pair][s]) \ gone |-> pre.l2_book[Pair][s][x]]
              /\ out.callbacks[1].delta[s] =
                     [i \in 1..Len(SideSeq(s)) |->
                         <<pre.order_id[Pair][s][SideSeq(s)[i].id], 0>>]

\* C8 as stated (delete removes exactly one level): a delete, with the gate
\* open, of identifiers the index holds removes each from the index, removes
\* the level at its price, changes no other level and delivers a delta holding
\* (price, 0) for it.
C8_Original == DeletesKnownIds => DeleteEffect

\* When entry k of such a delete is reached, the book holds no level at the
\* price of its identifier: the book held none when the handler began, or an
\* earlier entry of the message removed the level of an identifier of the same
\* side indexed at the same price.
LevelAbsentAt(k) ==
    LET s == SideOf(msg.data[k])
    IN  \/ IndexedPrice(k) \notin DOMAIN pre.l2_book[Pair][s]
        \/ \E j \in 1..(k - 1) :
               SideOf(msg.data[j]) = s /\ IndexedPrice(j) = IndexedPrice(k)

\* What such a delete does when entry k is the first to find its level absent:
\* the message raises KeyError and nothing is delivered; the identifiers of
\* entries 1..k have left the index and the levels of entries 1..k-1 have left
\* the book; no other level or index entry has changed.
DeleteFailsAt(k) ==
    /\ out.raised = "KeyError"
    /\ out.callbacks = <<>>
    /\ \A s \in Sides :
          LET ids == {msg.data[i].id : i \in {j \in EntriesOn(s) : j <= k}}
              gone == {IndexedPrice(i) : i \in {j \in EntriesOn(s) : j < k}}
          IN  /\ order_id[Pair][s] =
                     [o \in (DOMAIN pre.order_id[Pair][s]) \ ids |-> pre.order_id[Pair][s][o]]
              /\ l2_book[Pair][s] =
                     [x \in (DOMAIN pre.l2_book[Pair][s]) \ gone |-> pre.l2_book[Pair][s][x]]

\* C8 as amended: the same, provided the book holds a level at the price of
\* each identifier when its entry is reached; when an entry finds the level of
\* its identifier absent, the message raises KeyError with that identifier
\* removed from the index, the removals of the entries before it kept, nothing
\* else changed and nothing delivered.
C8_DeleteOneLevel ==
    DeletesKnownIds
    => /\ (\A k \in 1..Len(msg.data) : ~LevelAbsentAt(k)) => DeleteEffect
       /\ \A k \in 1..Len(msg.data) :
              (LevelAbsentAt(k) /\ \A j \in 1..(k - 1) : ~LevelAbsentAt(j))
              => DeleteFailsAt(k)

\* A delete of two identifiers indexed at one price has removed the level with
\* the first and has found it absent at the second.
C8_Witness ==
    /\ DeletesKnownIds /\ Len(msg.data) = 2 /\ out.raised = "KeyError"
    /\ ~LevelAbsentAt(1) /\ LevelAbsentAt(2)
    /\ IndexedPrice(2) \in DOMAIN pre.l2_book[Pair][SideOf(msg.data[2])]
    /\ IndexedPrice(2) \notin DOMAIN l2_book[Pair][SideOf(msg.data[2])]
    /\ DeleteFailsAt(2)

\* ---------------------------------------------------------------- C9
\* The size of the last entry of the message whose identifier the index held
\* at a price on a side.
LastSizeFor(side, price) ==
    LET at == {i \in EntriesOn(side) : IndexedPrice(i) = price}
    IN  msg.data[CHOOSE i \in at : \A j \in at : j <= i].size

\* C9 (update changes size only): an update, with the gate open, of
\* identifiers the index holds leaves the index as it was, sets the level at
\* each identifier's price to the reported size (the last one reported for
\* that price), leaves every other level as it was and delivers, with
\* forced = FALSE, a delta that lists (price, size) per entry, in order.
C9_UpdateSizeOnly ==
    (/\ BookHandled /\ msg.action = "update" /\ GateWasOpen
     /\ \A i \in 1..Len(msg.data) :
            msg.data[i].id \in DOMAIN pre.order_id[Pair][SideOf(msg.data[i])])
    => /\ out.raised = ""
       /\ Delivered /\ ~out.callbacks[1].forced
       /\ order_id[Pair] = pre.order_id[Pair]
       /\ \A s \in Sides :
             LET set == {IndexedPrice(i) : i \in EntriesOn(s)}
             IN  /\ DOMAIN l2_book[Pair][s] = (DOMAIN pre.l2_book[Pair][s]) \cup set
                 /\ \A x \in set : l2_book[Pair][s][x] = LastSizeFor(s, x)
                 /\ \A x \in (DOMAIN pre.l2_book[Pair][s]) \ set :
                        l2_book[Pair][s][x] = pre.l2_book[Pair][s][x]
                 /\ out.callbacks[1].delta[s] =
                        [i \in 1..Len(SideSeq(s)) |->
                            <<pre.order_id[Pair][s][SideSeq(s)[i].id], SideSeq(s)[i].size>>]

\* An update of one identifier has changed the size of its level while another
\* level rests beside it.
C9_Witness ==
    /\ BookHandled /\ msg.action = "update" /\ GateWasOpen /\ Len(msg.data) = 1
    /\ out.raised = ""
    /\ \E s \in Sides :
          /\ DOMAIN l2_book[Pair][s] = Prices
          /\ l2_book[Pair][s] # pre.l2_book[Pair][s]
          /\ out.callbacks[1].delta[s] =
                 <<<<pre.order_id[Pair][s][msg.data[1].id], msg.data[1].size>>>>

\* ---------------------------------------------------------------- C10
\* The bid side and the bid delta the scenario states after each step.
ScenarioBids ==
    <<(100 :> 5), (100 :> 5) @@ (99 :> 3), (100 :> 5) @@ (99 :> 7), (99 :> 7)>>
ScenarioDelta ==
    <<<<>>, <<<<99, 3>>>>, <<<<99, 7>>>>, <<<<100, 0>>>>>>

\* C10 (scenario): from a reset engine, after step k of the scenario (partial
\* id 1 at 100 size 5; insert id 2 at 99 size 3; update id 2 to size 7; delete
\* id 1) the book of XBTUSD has the stated bids and no asks, and one BookUpdate
\* is delivered with that book, forced = TRUE for the partial and FALSE for
\* the three diffs, and the stated bid delta and no ask delta.
C10_Scenario ==
    (Handled /\ scenario.on /\ scenario.step >= 1)
    => /\ l2_book["XBTUSD"] =
              [s \in Sides |-> IF s = BID THEN ScenarioBids[scenario.step] ELSE EmptyMap]
       /\ out.callbacks =
              <<[channel |-> L2_BOOK,
                 pair |-> "XBTUSD",
                 book |-> l2_book["XBTUSD"],
                 forced |-> (scenario.step = 1),
                 delta |-> [s \in Sides |-> IF s = BID THEN ScenarioDelta[scenario.step]
                                                       ELSE <<>>]]>>

\* The delete that ends the scenario has been handled.
C10_Witness == Handled /\ scenario.on /\ scenario.step = 4 /\ msg = Scenario[4]

\* ---------------------------------------------------------------- C11
\* A handler of subscribe has just ended.
Subscribed == pc = "done" /\ op = "subscribe"
\* The engine holds for symbol p what _reset leaves: gate closed, both book
\* sides empty, index empty.
IsReset(p) ==
    /\ ~partial_received[p]
    /\ \A s \in Sides : l2_book[p][s] = EmptyMap /\ order_id[p][s] = EmptyMap
\* The price of the last entry of the message that names an identifier on a side.
LastPriceOf(side, id) ==
    LET of == {i \in EntriesOn(side) : msg.data[i].id = id}
    IN  msg.data[CHOOSE i \in of : \A j \in of : j <= i].price

\* C11 (reset idempotence): a reset leaves every configured symbol with its
\* gate closed, both book sides and its index empty; a reset that follows a
\* reset leaves the engine as the first one left it; and a snapshot handled
\* right after one reset or after two leaves the same state and flag: the gate
\* open, forced = TRUE, the book and the index those of the snapshot's entries.
C11_ResetIdempotence ==
    /\ Subscribed
       => /\ \A p \in pairs : IsReset(p)
          /\ pre.resets >= 1
             => /\ partial_received = pre.partial_received
                /\ l2_book = pre.l2_book
                /\ order_id = pre.order_id
    /\ (BookHandled /\ msg.action = "partial" /\ pre.resets >= 1)
       => /\ partial_received[Pair]
          /\ Delivered /\ out.callbacks[1].forced
          /\ \A s \in Sides :
                /\ l2_book[Pair][s] = [x \in EntryPrices(s) |-> LastSizeAt(s, x)]
                /\ order_id[Pair][s] =
                       [o \in {msg.data[i].id : i \in EntriesOn(s)} |-> LastPriceOf(s, o)]

\* A snapshot has been handled right after two resets in a row, in a run whose
\* consumer had received a book before them.
C11_Witness ==
    /\ BookHandled /\ msg.action = "partial" /\ pre.resets = 2
    /\ consumer /\ \E s \in Sides : pre.replica[Pair][s] # EmptyMap

\* ---------------------------------------------------------------- C12
\* C12 (non-snapshot output): every BookUpdate delivered for an insert, update
\* or delete message has forced = FALSE and a delta with at least one
\* (price, size) pair, and a BookUpdate with forced = TRUE is a partial's.
C12_NonSnapshotOutput ==
    Handled
    => \A i \in 1..Len(out.callbacks) :
          out.callbacks[i].channel = L2_BOOK
          => /\ msg.action \in Diffs
                => /\ ~out.callbacks[i].forced
                   /\ \E s \in Sides : Len(out.callbacks[i].delta[s]) >= 1
             /\ out.callbacks[i].forced => msg.action = "partial"

\* An insert of two entries has been delivered, forced = FALSE, its delta
\* holding both.
C12_Witness ==
    /\ Delivered /\ msg.action = "insert" /\ Len(msg.data) = 2
    /\ ~out.callbacks[1].forced
    /\ \E s \in Sides : Len(out.callbacks[1].delta[s]) = 2

\* ---------------------------------------------------------------- C13
\* The loop state of the handled message once its first k entries are applied.
AfterEntries(k) == Entries(msg.action, PreAcc, SubSeq(msg.data, 1, k), 1)
\* Entry k of the handled message is reached by the loop and names an
\* identifier the index of its side does not hold at that point.
HitsUnknownIdAt(k) ==
    /\ AfterEntries(k - 1).raised = ""
    /\ msg.data[k].id \notin DOMAIN AfterEntries(k - 1).index[SideOf(msg.data[k])]
HitsUnknownId ==
    /\ BookHandled /\ msg.action \in {"update", "delete"} /\ GateWasOpen
    /\ \E k \in 1..Len(msg.data) : HitsUnknownIdAt(k)

\* C13 (failure is signalled and not partially delivered): an update or delete
\* handled with the gate open that reaches an identifier absent from the index
\* raises KeyError to the caller of the handler, delivers no BookUpdate, and
\* applies neither that entry nor any entry after it: the book and the index
\* are those the entries before it left.
C13_FailureSignalled ==
    HitsUnknownId
    => /\ out.raised = "KeyError"
       /\ out.callbacks = <<>>
       /\ \A k \in 1..Len(msg.data) :
             HitsUnknownIdAt(k)
             => /\ l2_book[Pair] = AfterEntries(k - 1).book
                /\ order_id[Pair] = AfterEntries(k - 1).index

\* A delete of an unknown identifier followed by a known one has raised and
\* the known one is still indexed.
C13_Witness ==
    /\ HitsUnknownId /\ msg.action = "delete" /\ Len(msg.data) = 2
    /\ HitsUnknownIdAt(1)
    /\ msg.data[2].id \in DOMAIN pre.order_id[Pair][SideOf(msg.data[2])]
    /\ msg.data[2].id \in DOMAIN order_id[Pair][SideOf(msg.data[2])]
    /\ out.raised = "KeyError" /\ out.callbacks = <<>>

\* ---------------------------------------------------------------- C14
\* The engine holds for symbol p what it held when the handler began.
Untouched(p) ==
    /\ partial_received[p] = pre.partial_received[p]
    /\ l2_book[p] = pre.l2_book[p]
    /\ order_id[p] = pre.order_id[p]
\* What a partial or insert that is let through the gate does: every entry's
\* identifier is indexed at the price of the last entry naming it, every
\* entry's price holds the size of the last entry at it, and one BookUpdate is
\* delivered.
WriteEffect ==
    /\ out.raised = ""
    /\ Delivered
    /\ partial_received[Pair]
    /\ \A s \in Sides :
          /\ \A x \in EntryPrices(s) :
                x \in DOMAIN l2_book[Pair][s] /\ l2_book[Pair][s][x] = LastSizeAt(s, x)
          /\ \A i \in EntriesOn(s) :
                /\ msg.data[i].id \in DOMAIN order_id[Pair][s]
                /\ order_id[Pair][s][msg.data[i].id] = LastPriceOf(s, msg.data[i].id)

\* C14 (error locality): a message that ends in KeyError leaves the gate, book
\* and index of every symbol other than its own as they were; and after a
\* handler has raised, later messages are still applied by the rules of their
\* action: a partial, and an insert with the gate open, write their entries
\* and are delivered; an update of indexed identifiers with the gate open sets
\* their levels and is delivered.
C14_ErrorLocality ==
    /\ (BookHandled /\ out.raised = "KeyError")
       => \A p \in pairs \ {Pair} : Untouched(p)
    /\ (BookHandled /\ pre.failed
        /\ (msg.action = "partial" \/ (msg.action = "insert" /\ GateWasOpen)))
       => WriteEffect
    /\ (BookHandled /\ pre.failed /\ msg.action = "update" /\ GateWasOpen
        /\ \A i \in 1..Len(msg.data) :
              msg.data[i].id \in DOMAIN pre.order_id[Pair][SideOf(msg.data[i])])
       => /\ out.raised = ""
          /\ Delivered
          /\ \A s \in Sides : \A i \in EntriesOn(s) :
                l2_book[Pair][s][IndexedPrice(i)] = LastSizeFor(s, IndexedPrice(i))

\* An update for one symbol has raised KeyError after its first entry was
\* applied, while the other symbol holds a book.
C14_Witness ==
    /\ BookHandled /\ out.raised = "KeyError" /\ msg.action = "update"
    /\ l2_book[Pair] # pre.l2_book[Pair]
    /\ \E p \in pairs \ {Pair} :
          partial_received[p] /\ \E s \in Sides : l2_book[p][s] # EmptyMap

\* ---------------------------------------------------------------- C20
\* C20 (cross-symbol frame): a handled book message leaves the gate, book and
\* index of every symbol other than the one its first entry names as they
\* were, and a partial or insert that is let through the gate writes every
\* entry, those naming another symbol too, into the book and index of the
\* first entry's symbol.
C20_CrossSymbolFrame ==
    BookHandled
    => /\ \A p \in pairs \ {Pair} : Untouched(p)
       /\ (msg.action = "partial" \/ (msg.action = "insert" /\ GateWasOpen))
          => WriteEffect

\* An insert whose second entry names the other symbol, which holds a book of
\* its own, has put that entry's level into the book of the first entry's symbol.
C20_Witness ==
    /\ BookHandled /\ msg.action = "insert" /\ Len(msg.data) = 2 /\ Delivered
    /\ msg.data[2].symbol # Pair
    /\ msg.data[2].price \notin DOMAIN pre.l2_book[Pair][SideOf(msg.data[2])]
    /\ msg.data[2].price \in DOMAIN l2_book[Pair][SideOf(msg.data[2])]
    /\ partial_received[msg.data[2].symbol]
    /\ \E s \in Sides : l2_book[msg.data[2].symbol][s] # EmptyMap

\* ---------------------------------------------------------------- C15
\* C15 (resubscription re-arms gating): subscribe runs _reset before it sends
\* the subscription message and leaves every configured symbol with its gate
\* closed, both book sides and its index empty; and an insert, update or
\* delete for a symbol for which no partial has been handled since the last
\* reset is discarded: gate, book and index stay as they were, nothing is
\* delivered and nothing is raised.
C15_ResubscribeRearms ==
    /\ Subscribed
       => /\ \A p \in pairs : IsReset(p)
          /\ out.log = <<"_reset", "send">>
    /\ (BookHandled /\ msg.action \in Diffs /\ ~pre.snapshot_seen[Pair])
       => /\ Untouched(Pair)
          /\ ~partial_received[Pair]
          /\ out.callbacks = <<>>
          /\ out.raised = ""

\* An insert is discarded after a subscribe, in a run whose consumer had
\* received the symbol's book before that subscribe.
C15_Witness ==
    /\ BookHandled /\ msg.action = "insert" /\ ~pre.snapshot_seen[Pair]
    /\ out.callbacks = <<>>
    /\ consumer /\ \E s \in Sides : replica[Pair][s] # EmptyMap

\* ---------------------------------------------------------------- C16
\* C16 (gate lifecycle): the gate of every symbol is closed after construction
\* and after every step that runs subscribe; it goes from closed to open only
\* in a step that handles a partial whose first entry names the symbol; and it
\* goes from open to closed only in a step that runs subscribe.
C16_GateLifecycle ==
    /\ \A p \in pairs : ~partial_received[p]
    /\ [][\A p \in pairs :
             /\ (pc = "idle" /\ op' = "subscribe") => ~partial_received'[p]
             /\ (~partial_received[p] /\ partial_received'[p])
                => /\ pc = "idle" /\ op' = "message_handler"
                   /\ msg'.table = "orderBookL2" /\ msg'.action = "partial"
                   /\ msg'.data # <<>> /\ msg'.data[1].symbol = p
             /\ (partial_received[p] /\ ~partial_received'[p])
                => pc = "idle" /\ op' = "subscribe"]_vars

\* A subscribe has closed a gate that was open, while the gate of another
\* symbol was closed before and after.
C16_Witness ==
    /\ Subscribed
    /\ \E p \in pairs : pre.partial_received[p] /\ ~partial_received[p]
    /\ \E p \in pairs : ~pre.partial_received[p] /\ ~partial_received[p]

\* ---------------------------------------------------------------- C17
\* C17 (last-write level size): every level of every book holds the size of
\* the last partial, insert or update entry applied to its price on its side
\* since the last reset, and no delete has been applied to the price after
\* that entry.
C17_LastWriteSize ==
    \A p \in pairs : \A s \in Sides : \A x \in DOMAIN l2_book[p][s] :
        /\ x \in DOMAIN last_write[p][s]
        /\ ~last_write[p][s][x].deleted
        /\ l2_book[p][s][x] = last_write[p][s][x].size

\* An update has replaced the size of a level by the size it carries.
C17_Witness ==
    /\ BookHandled /\ msg.action = "update" /\ Len(msg.data) = 1 /\ out.raised = ""
    /\ GateWasOpen
    /\ msg.data[1].id \in DOMAIN pre.order_id[Pair][SideOf(msg.data[1])]
    /\ LET s == SideOf(msg.data[1])
           x == IndexedPrice(1)
       IN  /\ x \in DOMAIN pre.l2_book[Pair][s]
           /\ pre.l2_book[Pair][s][x] # msg.data[1].size
           /\ l2_book[Pair][s][x] = msg.data[1].size

\* ---------------------------------------------------------------- C18
\* C18 (unexpected action): a book message whose action is none of partial,
\* insert, update and delete leaves the gate, book and index of every symbol
\* as they were, delivers nothing and raises nothing, with the gate of its
\* symbol open or closed.
C18_UnexpectedAction ==
    (BookHandled /\ msg.action \notin Actions)
    => /\ \A p \in pairs : Untouched(p)
       /\ out.callbacks = <<>>
       /\ out.raised = ""

\* A message of an unknown action has been handled with the gate open and a
\* level in the book.
C18_Witness ==
    /\ BookHandled /\ msg.action \notin Actions /\ GateWasOpen
    /\ \E s \in Sides : l2_book[Pair][s] # EmptyMap
    /\ out.log = <<"warning">>

\* ---------------------------------------------------------------- C19
\* C19 (delivery order): a handled book message that passed the gate with a
\* known action and ended without an exception has delivered exactly one
\* BookUpdate, that of its symbol's book as the message left it, within its
\* own handling; and the sink has received one BookUpdate per such message, in
\* the order of the messages: the k-th BookUpdate was delivered while the k-th
\* such message was being handled.
C19_DeliveryOrder ==
    /\ (BookHandled /\ msg.action \in Actions /\ out.raised = ""
        /\ (msg.action = "partial" \/ GateWasOpen))
       => /\ Delivered
          /\ out.callbacks[1].book = l2_book[Pair]
          /\ tracking => /\ sink # <<>>
                         /\ sink[Len(sink)] = nmsgs
    /\ tracking => sink = accepted

\* Three BookUpdates have reached the sink, one per message, in a run in which
\* a reset came between them.
C19_Witness ==
    /\ tracking /\ BookHandled /\ Len(sink) = 3 /\ sink = <<1, 2, 3>>
    /\ msg.action = "partial" /\ ~GateWasOpen

\* ---------------------------------------------------------------- C21
\* Every level of the book of symbol p is the indexed price of some identifier
\* of its side.
NoOrphanLevels(p) ==
    \A s \in Sides : \A price \in DOMAIN l2_book[p][s] :
        \E i \in DOMAIN order_id[p][s] : order_id[p][s][i] = price

\* C21 as stated (no orphan levels): as long as no message has failed, every
\* level of every book is the indexed price of some identifier of its side,
\* also after a partial or insert entry that names an identifier indexed at
\* another price.
C21_Original == ~failed => \A p \in pairs : NoOrphanLevels(p)

\* C21 as amended: every level of the book is the indexed price of some
\* identifier of its side, for every symbol for which, since the last reset,
\* no partial or insert entry named an identifier that its side had indexed at
\* another price.
C21_NoOrphanLevels ==
    \A p \in pairs : ~moved_id[p] => NoOrphanLevels(p)

\* A partial or insert has named again, at its indexed price, an identifier
\* the index already held, and the book still has levels.
C21_Witness ==
    /\ BookHandled /\ msg.action \in {"partial", "insert"} /\ GateWasOpen
    /\ out.raised = "" /\ ~moved_id[Pair]
    /\ \E i \in 1..Len(msg.data) :
           /\ msg.data[i].id \in DOMAIN pre.order_id[Pair][SideOf(msg.data[i])]
           /\ msg.data[i].price \in DOMAIN l2_book[Pair][SideOf(msg.data[i])]

====
